---- MODULE Spec2Model ----
(***************************************************************************)
(* Quotient accumulation of the CPU backend                               *)
(* (crates/prover/src/core/backend/cpu/quotients.rs).                     *)
(*                                                                         *)
(* Field elements keep their real width: BaseField is M31 (integers       *)
(* modulo 2^31 - 1), SecureField is QM31 = CM31[u]/(u^2 - 2 - i) with     *)
(* CM31 = M31[i]/(i^2 + 1).  A QM31 element (a + bi) + (c + di)u is the   *)
(* tuple <<a, b, c, d>>.  Rust slices and vectors are sequences; a Rust   *)
(* index i is position i + 1 of the sequence.                             *)
(***************************************************************************)
EXTENDS Integers, Sequences, FiniteSets, TLC

VARIABLES
  domain,          \* the CircleDomain argument: [log_size |-> n] (a canonic coset's circle domain)
  columns,         \* the column evaluations, each of length domain.size(), bit-reversed order
  random_coeff,    \* the SecureField challenge
  sample_batches,  \* the ColumnSampleBatch list
  pc,              \* position inside accumulate_quotients (and the test around it)
  values,          \* the SecureColumn being filled
  qconsts,         \* the local quotient_constants (<<>> before it is computed)
  rows_done,       \* rows whose value has been set
  acc_calls,       \* how many times accumulate_row_quotients has been invoked
  err,             \* the fatal condition that ended the call, "" if none
  result,          \* the returned SecureEvaluation (<<>> until the call returns)
  quot_poly        \* the test's interpolated polynomial (<<>> outside the test)

vars == <<domain, columns, random_coeff, sample_batches, pc, values, qconsts,
          rows_done, acc_calls, err, result, quot_poly>>

(***************************************************************************)
(* BaseField: M31.  Every intermediate value stays below 2^31.            *)
(***************************************************************************)
P == 2147483647

AddM(a, b) == IF a >= P - b THEN a - (P - b) ELSE a + b
SubM(a, b) == IF a >= b THEN a - b ELSE a + (P - b)
NegM(a) == IF a = 0 THEN 0 ELSE P - a

\* v * 2^s modulo 2^31 - 1 is a rotation of the 31 bits of v.
Rot(v, s) == (v % (2^(31 - s))) * (2^s) + (v \div (2^(31 - s)))

\* Product by 11-bit limbs, so that no partial product leaves 31 bits.
MulLimbs(a0, a1, a2, b0, b1, b2) ==
  AddM(AddM(AddM(a0 * b0, Rot(a0 * b1 + a1 * b0, 11)),
            AddM(Rot(a0 * b2 + a1 * b1 + a2 * b0, 22), Rot(a1 * b2 + a2 * b1, 2))),
       Rot(a2 * b2, 13))

MulM(a, b) ==
  IF a = 0 \/ b = 0 THEN 0
  ELSE MulLimbs(a % 2048, (a \div 2048) % 2048, a \div 4194304,
                b % 2048, (b \div 2048) % 2048, b \div 4194304)

\* v^e for an exponent of k bits, from the top bit down.
RECURSIVE PowBits(_, _, _, _)
PowBits(acc, v, e, k) ==
  IF k = 0 \/ acc = 0 THEN acc
  ELSE PowBits(MulM(MulM(acc, acc), IF (e \div 2^(k - 1)) % 2 = 1 THEN v ELSE 1),
               v, e, k - 1)

\* M31::inverse: v^(P - 2).  Zero has no inverse: callers never ask for it.
InvM(v) == PowBits(1, v, P - 2, 31)

\* x[1] * y[1] + ... + x[n] * y[n]
RECURSIVE DotM(_, _, _)
DotM(x, y, n) == IF n = 0 THEN 0 ELSE AddM(DotM(x, y, n - 1), MulM(x[n], y[n]))

(***************************************************************************)
(* SecureField (QM31), in the basis 1, i, u, iu with i^2 = -1 and         *)
(* u^2 = 2 + i.                                                            *)
(***************************************************************************)
Zero == <<0, 0, 0, 0>>
One == <<1, 0, 0, 0>>
FromBase(m) == <<m, 0, 0, 0>>

QAdd(p, q) == <<AddM(p[1], q[1]), AddM(p[2], q[2]), AddM(p[3], q[3]), AddM(p[4], q[4])>>
QSub(p, q) == <<SubM(p[1], q[1]), SubM(p[2], q[2]), SubM(p[3], q[3]), SubM(p[4], q[4])>>
QNeg(q) == <<NegM(q[1]), NegM(q[2]), NegM(q[3]), NegM(q[4])>>

\* The matrix of "times q": row k gives the coordinate k of p * q as a
\* combination of the coordinates of p.
MulMatrix(q) ==
  << <<q[1], NegM(q[2]), SubM(AddM(q[3], q[3]), q[4]), NegM(AddM(AddM(q[4], q[4]), q[3]))>>,
     <<q[2], q[1], AddM(q[3], AddM(q[4], q[4])), SubM(AddM(q[3], q[3]), q[4])>>,
     <<q[3], NegM(q[4]), q[1], NegM(q[2])>>,
     <<q[4], q[3], q[2], q[1]>> >>

RECURSIVE MatVec(_, _, _)
MatVec(m, x, k) ==
  IF k = 0 THEN <<>> ELSE Append(MatVec(m, x, k - 1), DotM(m[k], x, 4))

QMul(p, q) == IF p = Zero \/ q = Zero THEN Zero ELSE MatVec(MulMatrix(q), p, 4)

\* SecureField * BaseField, coordinate by coordinate.
RECURSIVE ScaleLoop(_, _, _)
ScaleLoop(q, m, k) ==
  IF k = 0 THEN <<>> ELSE Append(ScaleLoop(q, m, k - 1), MulM(q[k], m))
QMulBase(q, m) == ScaleLoop(q, m, 4)

\* ComplexConjugate for QM31: a + bu |-> a - bu
complex_conjugate(q) == <<q[1], q[2], NegM(q[3]), NegM(q[4])>>

\* q * conj(q) = n lies in CM31, and n times its own conjugate n[1] - n[2] i
\* lies in M31: q^-1 = conj(q) * (n[1] - n[2] i) / (n[1]^2 + n[2]^2).
InverseFromNorm(qbar, n) ==
  QMulBase(QMul(qbar, <<n[1], NegM(n[2]), 0, 0>>),
           InvM(AddM(MulM(n[1], n[1]), MulM(n[2], n[2]))))

\* Defined for q # Zero only.
QInv(q) == InverseFromNorm(complex_conjugate(q), QMul(q, complex_conjugate(q)))

\* FieldExpOps::pow: square and multiply, from the low bit of the exponent.
RECURSIVE PowLoop(_, _, _)
PowLoop(res, base, exp) ==
  IF exp = 0 THEN res
  ELSE PowLoop(IF exp % 2 = 1 THEN QMul(res, base) ELSE res, QMul(base, base), exp \div 2)
pow(q, exp) == PowLoop(One, q, exp)

(***************************************************************************)
(* Circle points and the evaluation domain.                               *)
(***************************************************************************)
M31_CIRCLE_GEN == [x |-> 2, y |-> 1268011823]
M31_CIRCLE_LOG_ORDER == 31

PointAdd(p, q) == [x |-> SubM(MulM(p.x, q.x), MulM(p.y, q.y)),
                   y |-> AddM(MulM(p.x, q.y), MulM(p.y, q.x))]

\* The identity (1, 0) is its own double.
RECURSIVE RepeatedDouble(_, _)
RepeatedDouble(p, n) ==
  IF n = 0 \/ p.x = 1 THEN p ELSE RepeatedDouble(PointAdd(p, p), n - 1)

RECURSIVE PointMul(_, _)
PointMul(p, k) ==
  IF k = 0 \/ p.x = 1 THEN [x |-> 1, y |-> 0]
  ELSE LET h == PointMul(PointAdd(p, p), k \div 2)
       IN IF k % 2 = 1 THEN PointAdd(h, p) ELSE h

\* The generators of the subgroups of order 2, 4, ..., 2^M31_CIRCLE_LOG_ORDER.
SubgroupGens ==
  [log_size \in 1..M31_CIRCLE_LOG_ORDER |->
     RepeatedDouble(M31_CIRCLE_GEN, M31_CIRCLE_LOG_ORDER - log_size)] \o <<>>

\* CirclePointIndex::subgroup_gen(log_size).to_point()
subgroup_gen(log_size) == SubgroupGens[log_size]

\* CanonicCoset::new(log_size).circle_domain().at(i): the half coset
\* G_{2^(n+1)} + <G_{2^(n-1)}> (indices 1, 5, 9, ... in units of G_{2^(n+1)}),
\* followed by its conjugate.
canonic_domain_at(log_size, i) ==
  LET half == 2^(log_size - 1)
      idx == IF i < half THEN 1 + 4 * i
             ELSE 2^(log_size + 1) - (1 + 4 * (i - half))
  IN PointMul(subgroup_gen(log_size + 1), idx)

domain_size(d) == 2^(d.log_size)

into_ef(p) == [x |-> FromBase(p.x), y |-> FromBase(p.y)]
point_conjugate(p) == [x |-> complex_conjugate(p.x), y |-> complex_conjugate(p.y)]

RECURSIVE ReverseBits(_, _, _)
ReverseBits(i, bits, acc) ==
  IF bits = 0 THEN acc ELSE ReverseBits(i \div 2, bits - 1, 2 * acc + (i % 2))

bit_reverse_index(i, log_size) == ReverseBits(i, log_size, 0)

RECURSIVE Log2(_)
Log2(n) == IF n <= 1 THEN 0 ELSE 1 + Log2(n \div 2)

\* utils::bit_reverse: the permutation, applied to a whole slice.
bit_reverse(v) ==
  [i \in 1..Len(v) |-> v[bit_reverse_index(i - 1, Log2(Len(v))) + 1]]

(***************************************************************************)
(* constraints.rs and FieldExpOps::batch_inverse.                         *)
(***************************************************************************)
\* The line through excluded0 and excluded1, evaluated at p.
pair_vanishing(excluded0, excluded1, p) ==
  QAdd(QAdd(QMul(QSub(excluded0.y, excluded1.y), p.x),
            QMul(QSub(excluded1.x, excluded0.x), p.y)),
       QSub(QMul(excluded0.x, excluded1.y), QMul(excluded0.y, excluded1.x)))

\* alpha * (a, b, c), where a * y + b is c times the line through
\* (point.y, value) and (conj(point.y), conj(value)).
complex_conjugate_line_coeffs(sample, alpha) ==
  LET a == QSub(complex_conjugate(sample.value), sample.value)
      c == QSub(complex_conjugate(sample.point.y), sample.point.y)
      b == QSub(QMul(sample.value, c), QMul(a, sample.point.y))
  IN <<QMul(alpha, a), QMul(alpha, b), QMul(alpha, c)>>

\* The product of column[lo..hi].
RECURSIVE RangeProduct(_, _, _)
RangeProduct(column, lo, hi) ==
  IF lo = hi THEN column[lo]
  ELSE QMul(RangeProduct(column, lo, (lo + hi) \div 2),
            RangeProduct(column, (lo + hi) \div 2 + 1, hi))

\* From the inverse of the product of column[lo..hi] to the inverse of each
\* entry: the inverse of one half is the inverse of the whole times the
\* product of the other half.
RECURSIVE InverseRange(_, _, _, _)
InverseRange(column, lo, hi, inverse) ==
  IF lo = hi THEN <<inverse>>
  ELSE InverseRange(column, lo, (lo + hi) \div 2,
                    QMul(inverse, RangeProduct(column, (lo + hi) \div 2 + 1, hi)))
       \o InverseRange(column, (lo + hi) \div 2 + 1, hi,
                       QMul(inverse, RangeProduct(column, lo, (lo + hi) \div 2)))

\* The one inversion of the batch, of the product of all entries.  Inverting
\* zero is fatal.
InvertProduct(column, product) ==
  IF product = Zero
  THEN [ok |-> FALSE, val |-> <<>>]
  ELSE [ok |-> TRUE, val |-> InverseRange(column, 1, Len(column), QInv(product))]

\* Batched inversion: one inversion and multiplications for the rest.
batch_inverse(column) ==
  IF Len(column) = 0 THEN [ok |-> TRUE, val |-> <<>>]
  ELSE InvertProduct(column, RangeProduct(column, 1, Len(column)))

(***************************************************************************)
(* quotients.rs                                                           *)
(***************************************************************************)
Min(a, b) == IF a <= b THEN a ELSE b

\* CircleDomain::at for the canonic domains used here.
domain_at(d, i) == canonic_domain_at(d.log_size, i)

Ok(v) == [ok |-> TRUE, val |-> v, err |-> ""]
Panic(e) == [ok |-> FALSE, val |-> <<>>, err |-> e]

\* LineCoeffsLoop with the weights taken before alpha is advanced, so that the
\* first claim of a batch carries random_coeff^0.
RECURSIVE LineCoeffsLoop_powers_from_zero(_, _, _, _, _)
LineCoeffsLoop_powers_from_zero(sample_batch, coeff, k, alpha, out) ==
  IF k > Len(sample_batch.columns_and_values) THEN out
  ELSE LineCoeffsLoop_powers_from_zero(sample_batch, coeff, k + 1, QMul(alpha, coeff),
         Append(out, complex_conjugate_line_coeffs(
                       [point |-> sample_batch.point,
                        value |-> sample_batch.columns_and_values[k][2]],
                       alpha)))

\* The inner map of column_line_coeffs: alpha runs through random_coeff^1,
\* random_coeff^2, ... along the batch's claims.
RECURSIVE LineCoeffsLoop(_, _, _, _, _)
LineCoeffsLoop(sample_batch, coeff, k, alpha, out) ==
  IF k > Len(sample_batch.columns_and_values) THEN out
  ELSE LineCoeffsLoop(sample_batch, coeff, k + 1, QMul(alpha, coeff),
         Append(out, complex_conjugate_line_coeffs(
                       [point |-> sample_batch.point,
                        value |-> sample_batch.columns_and_values[k][2]],
                       QMul(alpha, coeff))))

\* column_line_coeffs that has no entry for a batch without claims.
column_line_coeffs_without_empty(batches, coeff) ==
  [i \in 1..Len(SelectSeq(batches, LAMBDA b : b.columns_and_values # <<>>)) |->
     LineCoeffsLoop(SelectSeq(batches, LAMBDA b : b.columns_and_values # <<>>)[i],
                    coeff, 1, One, <<>>)]

\* column_line_coeffs that walks every batch's claims from the last to the
\* first.
column_line_coeffs_reversed(batches, coeff) ==
  [i \in 1..Len(batches) |->
     LineCoeffsLoop(
       [point |-> batches[i].point,
        columns_and_values |->
          [k \in 1..Len(batches[i].columns_and_values) |->
             batches[i].columns_and_values[Len(batches[i].columns_and_values) + 1 - k]]],
       coeff, 1, One, <<>>)]

column_line_coeffs(batches, coeff) ==
  [i \in 1..Len(batches) |-> LineCoeffsLoop(batches[i], coeff, 1, One, <<>>)]

\* batch_random_coeffs that gives every batch the multiplier one.
batch_random_coeffs_ones(batches, coeff) ==
  [i \in 1..Len(batches) |-> One]

batch_random_coeffs(batches, coeff) ==
  [i \in 1..Len(batches) |-> pow(coeff, Len(batches[i].columns_and_values))]

\* flat_denominators that computes nothing for a batch without claims.
flat_denominators_skipping_empty(batches, d) ==
  [k \in 1..(Len(batches) * domain_size(d)) |->
     IF batches[((k - 1) \div domain_size(d)) + 1].columns_and_values = <<>>
     THEN One
     ELSE pair_vanishing(batches[((k - 1) \div domain_size(d)) + 1].point,
                         point_conjugate(batches[((k - 1) \div domain_size(d)) + 1].point),
                         into_ef(domain_at(d, (k - 1) % domain_size(d))))] \o <<>>

\* The flat denominators, batch by batch and row by row in natural order.
flat_denominators(batches, d) ==
  [k \in 1..(Len(batches) * domain_size(d)) |->
     pair_vanishing(batches[((k - 1) \div domain_size(d)) + 1].point,
                    point_conjugate(batches[((k - 1) \div domain_size(d)) + 1].point),
                    into_ef(domain_at(d, (k - 1) % domain_size(d))))] \o <<>>

\* chunks_bit_reversed that leaves every chunk in natural order.
chunks_natural_order(flat, size) ==
  [b \in 1..((Len(flat) + size - 1) \div size) |->
     SubSeq(flat, (b - 1) * size + 1, Min(b * size, Len(flat)))]

\* chunks_mut(size), each chunk bit-reversed.
chunks_bit_reversed(flat, size) ==
  [b \in 1..((Len(flat) + size - 1) \div size) |->
     bit_reverse(SubSeq(flat, (b - 1) * size + 1, Min(b * size, Len(flat))))]

\* What denominator_inverses does with the outcome of batch_inverse.
InverseChunks(inv, size) ==
  IF inv.ok THEN Ok(chunks_bit_reversed(inv.val, size)) ELSE Panic("InvalidSample")

denominator_inverses(batches, d) ==
  InverseChunks(batch_inverse(flat_denominators(batches, d)), domain_size(d))

\* The struct QuotientConstants, when its last field could be computed.
QuotientConstants(line_coeffs, batch_coeffs, inverses) ==
  IF inverses.ok
  THEN Ok([line_coeffs |-> line_coeffs,
           batch_random_coeffs |-> batch_coeffs,
           denominator_inverses |-> inverses.val])
  ELSE Panic(inverses.err)

quotient_constants(batches, coeff, d) ==
  QuotientConstants(column_line_coeffs(batches, coeff),
                    batch_random_coeffs(batches, coeff),
                    denominator_inverses(batches, d))

\* numerator_term without the line a * y + b.
numerator_term_without_line(column, coeffs, row, domain_point) ==
  QMulBase(coeffs[3], column[row + 1])

\* One term of the numerator: column[row] * c - (a * domain_point.y + b).
numerator_term(column, coeffs, row, domain_point) ==
  QSub(QMulBase(coeffs[3], column[row + 1]),
       QAdd(QMulBase(coeffs[1], domain_point.y), coeffs[2]))

\* NumeratorLoop that passes over a claim whose column does not exist.
RECURSIVE NumeratorLoop_skipping_missing(_, _, _, _, _, _, _)
NumeratorLoop_skipping_missing(claims, line_coeffs, cols, row, domain_point, k, numerator) ==
  IF k > Len(claims) /\ k > Len(line_coeffs) THEN Ok(numerator)
  ELSE IF k > Len(claims) \/ k > Len(line_coeffs) THEN Panic("ShapeMismatch")
  ELSE IF claims[k][1] >= Len(cols)
       THEN NumeratorLoop_skipping_missing(claims, line_coeffs, cols, row, domain_point,
                                           k + 1, numerator)
  ELSE IF row >= Len(cols[claims[k][1] + 1]) THEN Panic("RowOutOfRange")
  ELSE NumeratorLoop_skipping_missing(claims, line_coeffs, cols, row, domain_point, k + 1,
         QAdd(numerator,
              numerator_term(cols[claims[k][1] + 1], line_coeffs[k], row, domain_point)))

\* The inner loop of accumulate_row_quotients.  zip_eq fails when one side
\* ends before the other; columns[column_index] and column[row] fail when
\* out of range.
RECURSIVE NumeratorLoop(_, _, _, _, _, _, _)
NumeratorLoop(claims, line_coeffs, cols, row, domain_point, k, numerator) ==
  IF k > Len(claims) /\ k > Len(line_coeffs) THEN Ok(numerator)
  ELSE IF k > Len(claims) \/ k > Len(line_coeffs) THEN Panic("ShapeMismatch")
  ELSE IF claims[k][1] >= Len(cols) THEN Panic("IndexOutOfRange")
  ELSE IF row >= Len(cols[claims[k][1] + 1]) THEN Panic("RowOutOfRange")
  ELSE NumeratorLoop(claims, line_coeffs, cols, row, domain_point, k + 1,
         QAdd(numerator,
              numerator_term(cols[claims[k][1] + 1], line_coeffs[k], row, domain_point)))

\* The outer loop: izip! stops at the shortest of its four sequences.
RECURSIVE BatchLoop(_, _, _, _, _, _, _)
RECURSIVE BatchStep(_, _, _, _, _, _, _, _)
BatchLoop(batches, cols, consts, row, domain_point, i, row_accumulator) ==
  IF i > Min(Min(Len(batches), Len(consts.line_coeffs)),
             Min(Len(consts.batch_random_coeffs), Len(consts.denominator_inverses)))
  THEN Ok(row_accumulator)
  ELSE BatchStep(batches, cols, consts, row, domain_point, i, row_accumulator,
                 NumeratorLoop(batches[i].columns_and_values, consts.line_coeffs[i],
                               cols, row, domain_point, 1, Zero))

\* Line 67, once the numerator of batch i is known.
BatchStep(batches, cols, consts, row, domain_point, i, row_accumulator, numerator) ==
  IF ~numerator.ok THEN numerator
  ELSE IF row >= Len(consts.denominator_inverses[i]) THEN Panic("RowOutOfRange")
  ELSE BatchLoop(batches, cols, consts, row, domain_point, i + 1,
         QAdd(QMul(row_accumulator, consts.batch_random_coeffs[i]),
              QMul(numerator.val, consts.denominator_inverses[i][row + 1])))

\* accumulate_row_quotients with a row accumulator that starts at one.
accumulate_row_quotients_from_one(batches, cols, consts, row, domain_point) ==
  BatchLoop(batches, cols, consts, row, domain_point, 1, One)

accumulate_row_quotients(batches, cols, consts, row, domain_point) ==
  BatchLoop(batches, cols, consts, row, domain_point, 1, Zero)

\* SecureColumn::zeros(len)
zeros(len) == [i \in 1..len |-> Zero]

\* accumulate_quotients as a function of its arguments: the row loop of lines
\* 28-39 from row on, and the return of line 40.
RECURSIVE RowLoop(_, _, _, _, _, _)
RECURSIVE StoreRow(_, _, _, _, _, _, _)
RowLoop(d, cols, batches, consts, row, vals) ==
  IF row = domain_size(d) THEN Ok([domain |-> d, values |-> vals])
  ELSE StoreRow(d, cols, batches, consts, row, vals,
                accumulate_row_quotients(
                  batches, cols, consts, row,
                  domain_at(d, bit_reverse_index(row, d.log_size))))

StoreRow(d, cols, batches, consts, row, vals, row_value) ==
  IF row_value.ok
  THEN RowLoop(d, cols, batches, consts, row + 1, [vals EXCEPT ![row + 1] = row_value.val])
  ELSE row_value

RowsWith(d, cols, batches, q) ==
  IF q.ok THEN RowLoop(d, cols, batches, q.val, 0, zeros(domain_size(d))) ELSE q

accumulate_quotients(d, cols, coeff, batches) ==
  RowsWith(d, cols, batches, quotient_constants(batches, coeff, d))

(***************************************************************************)
(* Arguments of accumulate_quotients.                                     *)
(***************************************************************************)
MaxLogSize == 2
MaxBatches == 2

SECURE_FIELD_CIRCLE_GEN ==
  [x |-> <<1, 0, 478637715, 513582971>>,
   y |-> <<992285211, 649143431, 740191619, 1186584352>>]

\* A second point outside the base field.
OtherPoint ==
  [x |-> <<3, 1, 4, 1>>, y |-> <<5, 9, 2, 6>>]

Value1 == <<5, 6, 7, 8>>
Value2 == <<1766938341, 810931584, 1939745622, 377083678>>
Value3 == <<0, 11, 0, 2147483646>>

ColumnA(size) == [i \in 1..size |-> (1000003 * i) % P]
ColumnB(size) == [i \in 1..size |-> i * i + 7]

\* Two columns, so that column index 2 is out of range.
Columns(d) == <<ColumnA(domain_size(d)), ColumnB(domain_size(d))>>

Batch(point, claims) == [point |-> point, columns_and_values |-> claims]

EmptyBatch == Batch(SECURE_FIELD_CIRCLE_GEN, <<>>)
SingleBatchA == Batch(SECURE_FIELD_CIRCLE_GEN, <<<<0, Value1>>>>)
SingleBatchB == Batch(OtherPoint, <<<<1, Value2>>>>)
TripleBatch == Batch(OtherPoint, <<<<1, Value3>>, <<0, Value1>>, <<1, Value2>>>>)
\* A batch sampled at a point of the domain itself.
CollidingEmptyBatch(d) == Batch(into_ef(domain_at(d, 1)), <<>>)
CollidingBatch(d) == Batch(into_ef(domain_at(d, 0)), <<<<1, Value1>>>>)
\* A batch whose second claim names a column that does not exist.
BadIndexBatch == Batch(SECURE_FIELD_CIRCLE_GEN, <<<<0, Value3>>, <<2, Value2>>>>)

BatchPool(d) ==
  <<EmptyBatch, SingleBatchA, SingleBatchB, TripleBatch,
    CollidingEmptyBatch(d), CollidingBatch(d), BadIndexBatch>>

RandomCoeffs == <<Zero, <<1, 2, 3, 4>>>>

(***************************************************************************)
(* accumulate_quotients, step by step.                                    *)
(***************************************************************************)
InitCall(d, cols, coeff, batches) ==
  /\ domain = d
  /\ columns = cols
  /\ random_coeff = coeff
  /\ sample_batches = batches
  /\ pc = "start"
  /\ values = <<>>
  /\ qconsts = <<>>
  /\ rows_done = {}
  /\ acc_calls = 0
  /\ err = ""
  /\ result = <<>>
  /\ quot_poly = <<>>

InitBatches(d, coeff, m, pool) ==
  \E choice \in [1..m -> 1..Len(pool)] :
    InitCall(d, Columns(d), coeff, [i \in 1..m |-> pool[choice[i]]])

Init ==
  \E log_size \in 1..MaxLogSize, c \in 1..Len(RandomCoeffs), m \in 0..MaxBatches :
    InitBatches([log_size |-> log_size], RandomCoeffs[c], m,
                BatchPool([log_size |-> log_size]))

\* Line 24 and the binding of line 25, given what quotient_constants did.
BindConstants(q) ==
  IF q.ok
  THEN /\ pc' = "rows"
       /\ qconsts' = q.val
       /\ values' = zeros(domain_size(domain))
       /\ err' = err
  ELSE /\ pc' = "failed"
       /\ qconsts' = qconsts
       /\ values' = <<>>
       /\ err' = q.err

\* Lines 24-25: allocate the output and precompute the constants.
Precompute ==
  /\ pc = "start"
  /\ BindConstants(quotient_constants(sample_batches, random_coeff, domain))
  /\ UNCHANGED <<domain, columns, random_coeff, sample_batches, rows_done, acc_calls,
                 result, quot_poly>>

\* SetRow that stores the value in the next free slot instead of slot row.
SetRow_by_arrival(row, row_value) ==
  IF row_value.ok
  THEN /\ values' = [values EXCEPT ![Cardinality(rows_done) + 1] = row_value.val]
       /\ rows_done' = rows_done \cup {row}
       /\ pc' = pc
       /\ err' = err
  ELSE /\ values' = <<>>
       /\ rows_done' = rows_done
       /\ pc' = "failed"
       /\ err' = row_value.err

\* Line 38: values.set(row, row_value), unless the row's accumulation failed.
SetRow(row, row_value) ==
  IF row_value.ok
  THEN /\ values' = [values EXCEPT ![row + 1] = row_value.val]
       /\ rows_done' = rows_done \cup {row}
       /\ pc' = pc
       /\ err' = err
  ELSE /\ values' = <<>>
       /\ rows_done' = rows_done
       /\ pc' = "failed"
       /\ err' = row_value.err

\* Lines 30-38: one iteration of the row loop.
RowStep(row) ==
  /\ pc = "rows"
  /\ row < domain_size(domain)
  /\ row \notin rows_done
  /\ SetRow(row, accumulate_row_quotients(
                    sample_batches, columns, qconsts, row,
                    domain_at(domain, bit_reverse_index(row, domain.log_size))))
  /\ acc_calls' = acc_calls + 1
  /\ UNCHANGED <<domain, columns, random_coeff, sample_batches, qconsts, result, quot_poly>>

\* Line 28: for row in 0..domain.size()
SequentialRow == RowStep(Cardinality(rows_done))

\* Line 40
Return ==
  /\ pc = "rows"
  /\ Cardinality(rows_done) = domain_size(domain)
  /\ pc' = "done"
  /\ result' = [domain |-> domain, values |-> values]
  /\ UNCHANGED <<domain, columns, random_coeff, sample_batches, values, qconsts,
                 rows_done, acc_calls, err, quot_poly>>

Next == Precompute \/ SequentialRow \/ Return

Spec == Init /\ [][Next]_vars

(***************************************************************************)
(* The row loop run by parallel workers: after the constants are bound,   *)
(* any row not yet done may be the next one to be computed and stored.    *)
(***************************************************************************)
MaxParLogSize == 2

ParBatchLists ==
  << <<>>, <<TripleBatch>>, <<SingleBatchA, TripleBatch>>, <<EmptyBatch, SingleBatchB>> >>

InitPar ==
  \E log_size \in 1..MaxParLogSize, c \in 1..Len(RandomCoeffs), k \in 1..Len(ParBatchLists) :
    InitCall([log_size |-> log_size], Columns([log_size |-> log_size]), RandomCoeffs[c],
             ParBatchLists[k])

ParRow == \E row \in 0..(domain_size(domain) - 1) : RowStep(row)

NextPar == Precompute \/ ParRow \/ Return

SpecPar == InitPar /\ [][NextPar]_vars

(***************************************************************************)
(* CirclePoly and CircleEvaluation, as far as test_quotients_are_low_degree *)
(* uses them.  Coefficient k of a CirclePoly multiplies the monomial      *)
(* y^k0 * x^k1 * pi(x)^k2 * ..., with k0, k1, k2, ... the bits of k from  *)
(* the lowest and pi(x) = 2 * x^2 - 1.                                    *)
(***************************************************************************)
\* CirclePoint::double_x
double_x(x) == QSub(QAdd(QMul(x, x), QMul(x, x)), One)

\* The folding factors of eval_at_point: y, x, pi(x), pi(pi(x)), ...,
\* reversed.
RECURSIVE Mappings(_, _, _)
Mappings(x, n, out) ==
  IF n = 0 THEN out ELSE Mappings(double_x(x), n - 1, <<x>> \o out)

\* fold, on the n values from position lo and the factors from position k.
RECURSIVE fold(_, _, _, _, _)
fold(coeffs, lo, n, folding_factors, k) ==
  IF n = 1 THEN FromBase(coeffs[lo])
  ELSE QAdd(fold(coeffs, lo, n \div 2, folding_factors, k + 1),
            QMul(fold(coeffs, lo + n \div 2, n \div 2, folding_factors, k + 1),
                 folding_factors[k]))

\* CirclePoly::eval_at_point
eval_at_point(coeffs, point) ==
  IF Len(coeffs) = 1 THEN FromBase(coeffs[1])
  ELSE fold(coeffs, 1, Len(coeffs),
            Mappings(point.x, Log2(Len(coeffs)) - 1, <<point.y>>), 1)

\* CirclePoly::evaluate: the values of the polynomial on the domain, stored
\* in bit-reversed order.
evaluate(coeffs, d) ==
  bit_reverse([i \in 1..domain_size(d) |->
                 eval_at_point(coeffs, into_ef(domain_at(d, i - 1)))[1]] \o <<>>)

\* One layer of the inverse FFT: from the values at t and -t (the two halves
\* of vals) to the values of the even and of the odd part.
ButterflySum(vals) ==
  [i \in 1..(Len(vals) \div 2) |->
     MulM(AddM(vals[i], vals[i + Len(vals) \div 2]), InvM(2))] \o <<>>

ButterflyDiff(vals, twiddles) ==
  [i \in 1..(Len(vals) \div 2) |->
     MulM(SubM(vals[i], vals[i + Len(vals) \div 2]),
          InvM(AddM(twiddles[i], twiddles[i])))] \o <<>>

Interleave(even, odd) ==
  [k \in 1..(2 * Len(even)) |->
     IF k % 2 = 1 THEN even[(k + 1) \div 2] ELSE odd[k \div 2]] \o <<>>

\* The x coordinates of the next layer: pi of the first half.
DoubledXs(xs) ==
  [i \in 1..(Len(xs) \div 2) |->
     SubM(AddM(MulM(xs[i], xs[i]), MulM(xs[i], xs[i])), 1)] \o <<>>

RECURSIVE LineInterpolate(_, _)
LineInterpolate(vals, xs) ==
  IF Len(vals) = 1 THEN vals
  ELSE Interleave(LineInterpolate(ButterflySum(vals), DoubledXs(xs)),
                  LineInterpolate(ButterflyDiff(vals, xs), DoubledXs(xs)))

\* The circle layer: the second half of the domain is the conjugate of the
\* first, so the twiddles are the y coordinates.
CircleInterpolate(vals, xs, ys) ==
  Interleave(LineInterpolate(ButterflySum(vals), xs),
             LineInterpolate(ButterflyDiff(vals, ys), xs))

\* CircleEvaluation::interpolate, of values in bit-reversed order.
interpolate(vals, d) ==
  CircleInterpolate(bit_reverse(vals) \o <<>>,
                    [i \in 1..(domain_size(d) \div 2) |-> domain_at(d, i - 1).x] \o <<>>,
                    [i \in 1..(domain_size(d) \div 2) |-> domain_at(d, i - 1).y] \o <<>>)

\* CirclePoly::is_in_fft_space: nothing but zeros from coefficient
\* 2^log_fft_size on.
is_in_fft_space(coeffs, log_fft_size) ==
  \A k \in 1..Len(coeffs) : k > 2^log_fft_size => coeffs[k] = 0

(***************************************************************************)
(* test_quotients_are_low_degree, for the test's LOG_SIZE and the smaller *)
(* ones.                                                                   *)
(***************************************************************************)
LOG_SIZE == 7

\* (0..1 << log_size).map(|i| m31!(i))
polynomial(log_size) == [i \in 1..(2^log_size) |-> i - 1]

InitTestCase(log_size, point) ==
  InitCall([log_size |-> log_size + 1],
           <<evaluate(polynomial(log_size), [log_size |-> log_size + 1])>>,
           <<1, 2, 3, 4>>,
           <<Batch(point, <<<<0, eval_at_point(polynomial(log_size), point)>>>>)>>)

InitTest == \E log_size \in 1..LOG_SIZE : InitTestCase(log_size, SECURE_FIELD_CIRCLE_GEN)

\* Lines 196-198: the first coordinate column of the result, interpolated.
Interpolate ==
  /\ pc = "done"
  /\ pc' = "interpolated"
  /\ quot_poly' = interpolate([i \in 1..Len(result.values) |-> result.values[i][1]],
                              domain)
  /\ UNCHANGED <<domain, columns, random_coeff, sample_batches, values, qconsts,
                 rows_done, acc_calls, err, result>>

NextTest == Precompute \/ SequentialRow \/ Return \/ Interpolate

SpecTest == InitTest /\ [][NextTest]_vars

\* C1: in the test, the interpolated quotient lies in the FFT space of half
\* the domain's size.
C1_QuotientsAreLowDegree ==
  pc = "interpolated" => is_in_fft_space(quot_poly, domain.log_size - 1)

C1_Witness ==
  /\ pc = "interpolated"
  /\ domain.log_size = LOG_SIZE + 1
  /\ random_coeff = <<1, 2, 3, 4>>
  /\ sample_batches[1].point = SECURE_FIELD_CIRCLE_GEN
  /\ Len(quot_poly) = 2^(LOG_SIZE + 1)
  /\ quot_poly[2^LOG_SIZE - 1] # 0

(***************************************************************************)
(* Properties of accumulate_quotients.                                    *)
(***************************************************************************)
\* C2: with an empty list of batches the call never fails, and what it
\* returns has domain.size() entries, every one of them zero.
C2_EmptyBatchesGiveZeros ==
  sample_batches = <<>> =>
    /\ pc # "failed"
    /\ pc = "done" =>
         /\ Len(result.values) = domain_size(domain)
         /\ \A i \in 1..Len(result.values) : result.values[i] = Zero

C2_Witness ==
  /\ sample_batches = <<>>
  /\ pc = "done"
  /\ random_coeff # Zero
  /\ Len(columns) > 0
  /\ Len(result.values) = 4

\* The values accumulate_quotients returns for the one batch alone.
AloneValues(batch) ==
  accumulate_quotients(domain, columns, random_coeff, <<batch>>).val.values

\* C3: the result for two batches of one claim each is, row by row, the
\* result for the first alone times random_coeff plus the result for the
\* second alone.
C3_BatchComposition ==
  ( /\ pc = "done"
    /\ Len(sample_batches) = 2
    /\ Len(sample_batches[1].columns_and_values) = 1
    /\ Len(sample_batches[2].columns_and_values) = 1 ) =>
    \A r \in 1..domain_size(domain) :
      result.values[r] =
        QAdd(QMul(AloneValues(sample_batches[1])[r], pow(random_coeff, 1)),
             AloneValues(sample_batches[2])[r])

C3_Witness ==
  /\ pc = "done"
  /\ sample_batches = <<SingleBatchA, SingleBatchB>>
  /\ random_coeff = <<1, 2, 3, 4>>
  /\ domain.log_size = 2
  /\ \A r \in 1..4 : AloneValues(SingleBatchA)[r] # Zero

InBaseField(q) == q[2] = 0 /\ q[3] = 0 /\ q[4] = 0

\* Some point of the domain is the batch's sample point or its conjugate.
Collides(batch, d) ==
  /\ InBaseField(batch.point.x)
  /\ InBaseField(batch.point.y)
  /\ \E row \in 0..(domain_size(d) - 1) :
       \/ into_ef(domain_at(d, row)) = batch.point
       \/ into_ef(domain_at(d, row)) = point_conjugate(batch.point)

\* C4: when a domain point is the sample point of some batch (or its
\* conjugate), even of a batch without claims, the call fails with
\* InvalidSample while it computes the denominators: no row is accumulated
\* and nothing is returned.
C4_ZeroDenominatorIsFatal ==
  (\E i \in 1..Len(sample_batches) : Collides(sample_batches[i], domain)) =>
    /\ pc \in {"start", "failed"}
    /\ pc = "failed" => err = "InvalidSample"
    /\ acc_calls = 0
    /\ rows_done = {}
    /\ result = <<>>

C4_Witness ==
  /\ pc = "failed"
  /\ err = "InvalidSample"
  /\ sample_batches = <<SingleBatchA, CollidingEmptyBatch(domain)>>

\* Some claim names a column that is not in cols.
HasBadIndex(batches, cols) ==
  \E i \in 1..Len(batches) : \E k \in 1..Len(batches[i].columns_and_values) :
    batches[i].columns_and_values[k][1] >= Len(cols)

\* C5, as stated: a column index out of range is found while the constants
\* are computed, so the call stops there, before any row is accumulated.
C5_FoundDuringPrecomputation ==
  HasBadIndex(sample_batches, columns) =>
    /\ pc \in {"start", "failed"}
    /\ acc_calls = 0
    /\ result = <<>>

\* C5, as the code has it: the constants are computed without looking at the
\* column indices; a column index out of range stops the call in the first
\* invocation of accumulate_row_quotients, for row 0, unless a zero
\* denominator has stopped it before.  No row is stored, nothing is returned.
C5_FoundAtTheFirstRow ==
  HasBadIndex(sample_batches, columns) =>
    /\ pc # "done"
    /\ result = <<>>
    /\ rows_done = {}
    /\ pc \in {"start", "rows"} => acc_calls = 0
    /\ pc = "failed" =>
         \/ err = "InvalidSample" /\ acc_calls = 0
         \/ err = "IndexOutOfRange" /\ acc_calls = 1 /\ values = <<>>

C5_Witness ==
  /\ pc = "failed"
  /\ err = "IndexOutOfRange"
  /\ acc_calls = 1
  /\ sample_batches = <<SingleBatchA, BadIndexBatch>>

\* c * v - (a * y + b), for a triple t = (a, b, c)
LineResidue(t, y, v) == QSub(QMul(t[3], v), QAdd(QMul(t[1], y), t[2]))

OtherValues(v) ==
  {QAdd(v, One), complex_conjugate(v), QNeg(v), Zero, Value1, Value2} \ {v}

\* C6: for a claim with value v at a point p with p.y # conj(p.y), its triple
\* (a, b, c) makes c * v - (a * p.y + b) zero, and the same at the conjugate
\* point with the conjugate value; and for a nonzero random_coeff it makes
\* c * w - (a * p.y + b) nonzero for every w # v.
C6_LineMeetsTheClaim ==
  (pc = "rows" /\ rows_done = {}) =>
    \A i \in 1..Len(sample_batches) :
      \A k \in 1..Len(sample_batches[i].columns_and_values) :
        sample_batches[i].point.y # complex_conjugate(sample_batches[i].point.y) =>
          /\ LineResidue(qconsts.line_coeffs[i][k], sample_batches[i].point.y,
                         sample_batches[i].columns_and_values[k][2]) = Zero
          /\ LineResidue(qconsts.line_coeffs[i][k],
                         complex_conjugate(sample_batches[i].point.y),
                         complex_conjugate(sample_batches[i].columns_and_values[k][2])) = Zero
          /\ random_coeff # Zero =>
               \A w \in OtherValues(sample_batches[i].columns_and_values[k][2]) :
                 LineResidue(qconsts.line_coeffs[i][k], sample_batches[i].point.y, w) # Zero

C6_Witness ==
  /\ pc = "rows"
  /\ rows_done = {}
  /\ random_coeff # Zero
  /\ sample_batches = <<SingleBatchA, TripleBatch>>
  /\ qconsts.line_coeffs[2][3][3] # Zero

\* The number of claims in the batches after batch i.
RECURSIVE ClaimsAfter(_, _)
ClaimsAfter(batches, i) ==
  IF i >= Len(batches) THEN 0
  ELSE Len(batches[i + 1].columns_and_values) + ClaimsAfter(batches, i + 1)

\* The power of random_coeff that claim j of batch i carries.
SlotExponent(batches, i, j) == j + ClaimsAfter(batches, i)

\* The pairs (batch, position) of all the claims.
Slots(batches) ==
  UNION {{<<i, j>> : j \in 1..Len(batches[i].columns_and_values)} : i \in 1..Len(batches)}

\* The numerator term of claim j of batch i at row, with weight one.
UnweightedTerm(i, j, row) ==
  numerator_term(columns[sample_batches[i].columns_and_values[j][1] + 1],
                 complex_conjugate_line_coeffs(
                   [point |-> sample_batches[i].point,
                    value |-> sample_batches[i].columns_and_values[j][2]], One),
                 row, domain_at(domain, bit_reverse_index(row, domain.log_size)))

SlotValue(i, j, row) ==
  QMul(QMul(pow(random_coeff, SlotExponent(sample_batches, i, j)),
            UnweightedTerm(i, j, row)),
       qconsts.denominator_inverses[i][row + 1])

RECURSIVE SlotSum(_, _)
SlotSum(slots, row) ==
  IF slots = {} THEN Zero
  ELSE LET s == CHOOSE t \in slots : TRUE
       IN QAdd(SlotValue(s[1], s[2], row), SlotSum(slots \ {s}, row))

\* C7: every returned value is the sum, over the claims j of the batches i,
\* of random_coeff^(j + the number of claims in the later batches) times the
\* claim's unweighted numerator term times the batch's denominator inverse;
\* the multiplier of a batch is random_coeff^(its number of claims); and the
\* exponents of the claims are, one each, the numbers from 1 to the number
\* of all claims.
C7_RandomPowerSlots ==
  pc = "done" =>
    /\ \A r \in 0..(domain_size(domain) - 1) :
         result.values[r + 1] = SlotSum(Slots(sample_batches), r)
    /\ \A i \in 1..Len(sample_batches) :
         qconsts.batch_random_coeffs[i] =
           pow(random_coeff, Len(sample_batches[i].columns_and_values))
    /\ {SlotExponent(sample_batches, s[1], s[2]) : s \in Slots(sample_batches)}
         = 1..Cardinality(Slots(sample_batches))

C7_Witness ==
  /\ pc = "done"
  /\ sample_batches = <<TripleBatch, SingleBatchA>>
  /\ random_coeff = <<1, 2, 3, 4>>
  /\ SlotExponent(sample_batches, 1, 3) = 4
  /\ \A r \in 1..domain_size(domain) : result.values[r] # Zero

\* C8: the denominator inverse stored for batch b at row r is the inverse of
\* the pair-vanishing polynomial of the batch's point at the domain point
\* that the row loop uses for row r.
C8_DenominatorsFollowTheRows ==
  (pc = "rows" /\ rows_done = {}) =>
    \A b \in 1..Len(sample_batches) : \A r \in 0..(domain_size(domain) - 1) :
      QMul(qconsts.denominator_inverses[b][r + 1],
           pair_vanishing(sample_batches[b].point,
                          point_conjugate(sample_batches[b].point),
                          into_ef(domain_at(domain,
                                            bit_reverse_index(r, domain.log_size)))))
        = One

C8_Witness ==
  /\ pc = "rows"
  /\ rows_done = {}
  /\ domain.log_size = 2
  /\ sample_batches = <<SingleBatchA, SingleBatchB>>
  /\ qconsts.denominator_inverses[2][2] # qconsts.denominator_inverses[2][3]

\* In the row phase, a slot holds zero until its row is done and then the
\* value of accumulate_row_quotients for that row; what is returned is what
\* the sequential loop returns.
C9_Slots ==
  /\ pc = "rows" =>
       \A row \in 0..(domain_size(domain) - 1) :
         values[row + 1] =
           IF row \in rows_done
           THEN accumulate_row_quotients(
                  sample_batches, columns, qconsts, row,
                  domain_at(domain, bit_reverse_index(row, domain.log_size))).val
           ELSE Zero
  /\ pc = "done" =>
       result = accumulate_quotients(domain, columns, random_coeff, sample_batches).val

\* A step of the row phase leaves the inputs and the constants alone, and
\* changes no slot but that of the one row it adds.
C9_Frame ==
  pc = "rows" =>
    /\ UNCHANGED <<domain, columns, random_coeff, sample_batches, qconsts>>
    /\ pc' = "rows" =>
         \E row \in 0..(domain_size(domain) - 1) :
           /\ rows_done' = rows_done \cup {row}
           /\ row \notin rows_done
           /\ \A other \in 0..(domain_size(domain) - 1) :
                other # row => values'[other + 1] = values[other + 1]

\* C9: whatever the order in which the rows are processed, every value
\* depends on its row alone and goes to the slot of its row, the result is
\* that of the sequential loop, and the row phase changes neither the
\* columns, nor the domain, nor the constants.
C9_RowIndependence == []C9_Slots /\ [][C9_Frame]_vars

C9_Witness ==
  /\ pc = "rows"
  /\ rows_done = {3, 1}
  /\ sample_batches = <<SingleBatchA, TripleBatch>>
  /\ values[4] # Zero
  /\ values[4] # values[2]
  /\ values[1] = Zero

\* C10: the three sequences of constants have one entry for each batch, the
\* line coefficients of a batch one entry for each of its claims, and its
\* denominator inverses one for each row; the call never fails with
\* ShapeMismatch.
C10_ConstantsShape ==
  /\ err # "ShapeMismatch"
  /\ pc \in {"rows", "done"} =>
       /\ Len(qconsts.line_coeffs) = Len(sample_batches)
       /\ Len(qconsts.batch_random_coeffs) = Len(sample_batches)
       /\ Len(qconsts.denominator_inverses) = Len(sample_batches)
       /\ \A b \in 1..Len(sample_batches) :
            /\ Len(qconsts.line_coeffs[b]) = Len(sample_batches[b].columns_and_values)
            /\ Len(qconsts.denominator_inverses[b]) = domain_size(domain)

C10_Witness ==
  /\ pc = "done"
  /\ sample_batches = <<EmptyBatch, TripleBatch>>
  /\ Len(qconsts.line_coeffs[1]) = 0
  /\ Len(qconsts.line_coeffs[2]) = 3

====
